---- MODULE Spec2Model ----
(***************************************************************************)
(* Model of BigipTenantManager (f5_openstack_agent/lbaasv2/drivers/bigip/  *)
(* tenants.py): the per-tenant partition teardown, assure_tenant_cleanup   *)
(* and _remove_tenant_replication_mode, and the partition's creation,      *)
(* assure_tenant_created, run against a set of BIG-IP appliances.          *)
(*                                                                         *)
(* One action is one call the manager makes on a collaborator (device      *)
(* client, plugin RPC, L2 service) together with the exception handling    *)
(* the manager wraps around that call, so the state after an action shows  *)
(* what the manager decided to do with the call's outcome.  The            *)
(* collaborators are not part of tenants.py: the outcome of every call     *)
(* that can fail is chosen nondeterministically.  Listings                 *)
(* (BigIPResourceHelper.get_resources) return the instances present, in a  *)
(* fixed order, and do not fail.                                           *)
(***************************************************************************)
EXTENDS Integers, Sequences, FiniteSets, TLC

(***************************************************************************)
(* Bounds of the model.                                                    *)
(***************************************************************************)
NumBigips == 2        \* appliances in service['bigips']
MaxRes == 2           \* typed resources in the partition at the start
MaxRd == 2            \* route domains in the partition at the start
MaxInvocations == 2   \* calls of assure_tenant_cleanup in one behaviour

(***************************************************************************)
(* Program constants.                                                      *)
(***************************************************************************)
max_attempt == 3
interval == 1
AUTH_EXPIRED == 401

(***************************************************************************)
(* service['bigips'], in iteration order.                                  *)
(***************************************************************************)
Bigips == 1 .. NumBigips

(***************************************************************************)
(* The typed resources a partition may hold.  ResourceType gives the       *)
(* type of an instance and tag the VLAN tag (0: no tag).                   *)
(***************************************************************************)
AllResources == << "snat_a", "snatpool_a", "snat_translation_a",
                   "selfip_a", "vlan_17", "vlan_0" >>

ResourceNames == { AllResources[i] : i \in 1 .. Len(AllResources) }

ResourceType(r) ==
    CASE r = "snat_a" -> "snat"
      [] r = "snatpool_a" -> "snatpool"
      [] r = "snat_translation_a" -> "snat_translation"
      [] r = "selfip_a" -> "selfip"
      [] OTHER -> "vlan"

tag(r) == IF r = "vlan_17" THEN 17 ELSE 0

\* bigip.hostname: the appliances are told apart by their place in the list
hostname(b) == b

(***************************************************************************)
(* A variant of the reading of the tag that starts from a tag of 1.        *)
(***************************************************************************)
TagReadStartsAtOne(r) == IF ResourceType(r) = "vlan" THEN tag(r) ELSE 1

(***************************************************************************)
(* "tag = 0; if rtype == ResourceType.vlan: tag = r.tag": the tag the try  *)
(* block holds when it comes to "if tag:".                                 *)
(***************************************************************************)
TagRead(r) == IF ResourceType(r) = "vlan" THEN tag(r) ELSE 0

AllDomains == << "rd_1", "rd_2", "rd_3" >>

VirtualAddresses == { "va_1" }
Nodes == { "node_1" }

(***************************************************************************)
(* Outcomes of the collaborators' calls.  r.delete() and the F5OS call     *)
(* return, or raise requests.HTTPError with a status, or raise another     *)
(* exception; the status is kept where the code looks at it.               *)
(***************************************************************************)
NoError == [cls |-> "none", status |-> 0]
HTTPError(s) == [cls |-> "HTTPError", status |-> s]
OtherError == [cls |-> "Exception", status |-> 0]

Raised == { HTTPError(AUTH_EXPIRED), HTTPError(500), OtherError }

\* f5ex.SystemCreationException, and '/Common/' + get_traffic_group_1()
SystemCreationException == [cls |-> "SystemCreationException", status |-> 0]
TrafficGroup == "/Common/traffic-group-1"
Outcomes == { NoError } \cup Raised

(***************************************************************************)
(* A variant of the list of the required deletions with the VLANs taken    *)
(* before the self IPs that sit on them.                                   *)
(***************************************************************************)
DeleteTypesVlanBeforeSelfip ==
    << "snat", "snatpool", "snat_translation", "vlan", "selfip" >>

(***************************************************************************)
(* The two type lists of _remove_tenant_replication_mode.                  *)
(***************************************************************************)
PortTypes == << "snat_translation", "selfip" >>

DeleteTypes == << "snat", "snatpool", "snat_translation", "selfip", "vlan" >>

(***************************************************************************)
(* BigIPResourceHelper(rtype).get_resources(bigip, partition): the         *)
(* instances of one type among those present, as a list.                   *)
(***************************************************************************)
get_resources(rtype, present) ==
    SelectSeq(AllResources,
              LAMBDA r : r \in present /\ ResourceType(r) = rtype)

get_route_domain_names(present) ==
    SelectSeq(AllDomains, LAMBDA d : d \in present)

(***************************************************************************)
(* Variants of _partition_empty that look at one of the two listings.      *)
(***************************************************************************)
PartitionEmptyNodesOnly(virtual_addresses, nodes_) ==
    IF nodes_ = {} THEN TRUE ELSE FALSE

PartitionEmptyAddressesOnly(virtual_addresses, nodes_) ==
    IF virtual_addresses = {} THEN TRUE ELSE FALSE

\* and one that is content with either listing being empty
PartitionEmptyEither(virtual_addresses, nodes_) ==
    IF nodes_ = {} \/ virtual_addresses = {} THEN TRUE ELSE FALSE

(***************************************************************************)
(* _partition_empty: both listings are read, and the partition is empty    *)
(* when neither has an element.                                            *)
(***************************************************************************)
_partition_empty(virtual_addresses, nodes_) ==
    IF nodes_ = {} /\ virtual_addresses = {} THEN TRUE ELSE FALSE

(***************************************************************************)
(* The nested for-loops "for rtype in types: for r in get_resources(..)":  *)
(* ForLoop gives the first type of the list that lists an instance, with   *)
(* its listing, dropping the types whose listing is empty.                 *)
(***************************************************************************)
RECURSIVE ForLoop(_, _)
ForLoop(types, present) ==
    IF types = << >>
    THEN [rtypes |-> << >>, pending |-> << >>]
    ELSE IF get_resources(Head(types), present) # << >>
         THEN [rtypes |-> types,
               pending |-> get_resources(Head(types), present)]
         ELSE ForLoop(Tail(types), present)

(***************************************************************************)
(* A variant of the end of the required deletions that goes to the folder  *)
(* deletion with the route domains left where they are.                    *)
(***************************************************************************)
AfterDeletesSkipsRouteDomains(dn) ==
    [pc |-> "folder", rtypes |-> << >>, pending |-> << >>]

(***************************************************************************)
(* Where the teardown stands once the required deletions are over: the     *)
(* route-domain loop over domain_names, or the folder deletion.            *)
(***************************************************************************)
AfterDeletes(dn) ==
    IF dn # << >>
    THEN [pc |-> "rdomains", rtypes |-> << >>, pending |-> dn]
    ELSE [pc |-> "folder", rtypes |-> << >>, pending |-> << >>]

DeleteLoop(types, present, dn) ==
    LET l == ForLoop(types, present)
    IN  IF l.rtypes # << >>
        THEN [pc |-> "delete", rtypes |-> l.rtypes, pending |-> l.pending]
        ELSE AfterDeletes(dn)

PortLoop(types, present, dn) ==
    LET l == ForLoop(types, present)
    IN  IF l.rtypes # << >>
        THEN [pc |-> "ports", rtypes |-> l.rtypes, pending |-> l.pending]
        ELSE DeleteLoop(DeleteTypes, present, dn)

(***************************************************************************)
(* A variant of the except clauses of the retry loop whose test of the     *)
(* attempts left is off by one: the last 401 is slept on, not raised.      *)
(***************************************************************************)
ExceptDeleteSleepsAtLast(err, att) ==
    IF err.cls = "HTTPError"
    THEN IF err.status = AUTH_EXPIRED
         THEN IF att <= max_attempt THEN "sleep" ELSE "raise"
         ELSE "pass"
    ELSE "raise"

(***************************************************************************)
(* The except clauses around r.delete() and _delete_f5os_vlan_network      *)
(* (attempt is the attempt that raised): a 401 is slept on and retried     *)
(* while attempts are left and raised at the last one, an HTTPError with   *)
(* another status leaves the except clause without a raise, any other      *)
(* exception is raised.                                                    *)
(***************************************************************************)
ExceptDelete(err, att) ==
    IF err.cls = "HTTPError"
    THEN IF err.status = AUTH_EXPIRED
         THEN IF att < max_attempt THEN "sleep" ELSE "raise"
         ELSE "pass"
    ELSE "raise"

(***************************************************************************)
(* Variants of the three except clauses below with the other policy: the   *)
(* callback's error raised, the route domain's and the folder's passed.    *)
(***************************************************************************)
ExceptPortRaises(err) == "raise"

ExceptRouteDomainPasses(err) == "pass"

ExceptFolderPasses(err) == "pass"

(***************************************************************************)
(* except Exception around delete_port_by_name: logged, not raised.        *)
(***************************************************************************)
ExceptPort(err) == "pass"

(***************************************************************************)
(* except Exception around delete_route_domain and delete_folder: logged   *)
(* and raised again.                                                       *)
(***************************************************************************)
ExceptRouteDomain(err) == "raise"

ExceptFolder(err) == "raise"


VARIABLES
    \* the appliances
    folder,         \* folder[b]: the partition exists on appliance b
    vaddrs,         \* vaddrs[b]: VirtualAddress instances of the partition
    nodes,          \* nodes[b]: Node instances of the partition
    res,            \* res[b]: Snat, SnatPool, SnatTranslation, SelfIP, VLAN
    rds,            \* rds[b]: route domains of the partition
    \* the manager
    bigips,         \* service['bigips'], the appliances to tear down, in order
    pc,             \* position in assure_tenant_cleanup
    idx,            \* index of bigip in service['bigips'] (0: before the loop)
    domain_names,   \* domain_names of the running teardown
    rtypes,         \* types left in the running "for rtype in types"
    pending,        \* instances (or domain names) left in the inner for-loop
    attempt,        \* attempt of the retry loop
    result,         \* what assure_tenant_cleanup gave its caller
    \* what has happened (history, read by the properties only)
    invocations,    \* calls of assure_tenant_cleanup so far
    outcome,        \* outcome[b]: how the teardown of b ended, this invocation
    touched,        \* appliances that received a call in this invocation
    gate,           \* what _partition_empty returned in this teardown
    trace,          \* the callbacks and deletions of this teardown, in order
    last,           \* the last call of this teardown and how it ended
    sleeps,         \* sleep(interval) calls of the retry loop of last.name
    authFails,      \* calls of that retry loop that raised a 401
    failedPorts,    \* instances whose delete_port_by_name raised
    failedFabric,   \* instances whose _delete_f5os_vlan_network raised
    before,         \* the partition as this teardown found it
    streak,         \* streak[b]: teardowns in a row that found it deleted
    previous,       \* previous[b]: outcome[b] of the invocation before
    clean,          \* no call of this teardown has raised
    recovered,      \* a delete of last.name returned after a 401 on it
    fabricArgs,     \* arguments of the last _delete_f5os_vlan_network call
    \* assure_tenant_created
    traffic_group,  \* service["traffic_group"]
    found,          \* found[b]: what folder_exists gave, this invocation
    created         \* created[b]: create_folder calls on b, this invocation

device == << folder, vaddrs, nodes, res, rds >>
manager == << bigips, pc, idx, domain_names, rtypes, pending, attempt, result >>
history == << invocations, outcome, touched, gate, trace, last, sleeps,
              authFails, failedPorts, failedFabric, before, streak,
              previous, clean, recovered, fabricArgs >>
creation == << traffic_group, found, created >>
vars == << device, manager, history, creation >>

NoCall == [call |-> "none", name |-> "none", out |-> NoError]
NoArgs == [hostname |-> 0, tag |-> 0]
Running == [status |-> "running", err |-> NoError]
Returned == [status |-> "returned", err |-> NoError]
RaisedTo(err) == [status |-> "raised", err |-> err]
Partition(b) == [folder |-> folder[b], res |-> res[b], rds |-> rds[b]]
NoPartition == [folder |-> FALSE, res |-> {}, rds |-> {}]

(***************************************************************************)
(* The partition as it stands when the tenant's last workload goes, on     *)
(* the appliances of service['bigips']: it holds some typed resources and  *)
(* route domains and, maybe, virtual addresses and nodes; or it is         *)
(* already gone.  Appliances outside service['bigips'] hold nothing.       *)
(***************************************************************************)
Contents(targets) ==
    \E exists \in BOOLEAN :
    \E present \in { s \in SUBSET ResourceNames : Cardinality(s) <= MaxRes } :
    \E domains \in { { AllDomains[i] : i \in 1 .. n } : n \in 0 .. MaxRd } :
    \E vas \in SUBSET VirtualAddresses :
    \E ns \in SUBSET Nodes :
       /\ ~exists => present = {} /\ domains = {} /\ vas = {} /\ ns = {}
       /\ folder = [b \in Bigips |-> b \in targets /\ exists]
       /\ res = [b \in Bigips |-> IF b \in targets THEN present ELSE {}]
       /\ rds = [b \in Bigips |-> IF b \in targets THEN domains ELSE {}]
       /\ vaddrs = [b \in Bigips |-> IF b \in targets THEN vas ELSE {}]
       /\ nodes = [b \in Bigips |-> IF b \in targets THEN ns ELSE {}]

Idle ==
    /\ pc = "idle"
    /\ idx = 0
    /\ domain_names = << >>
    /\ rtypes = << >>
    /\ pending = << >>
    /\ attempt = 0
    /\ result = Running
    /\ invocations = 0
    /\ outcome = [b \in Bigips |-> "none"]
    /\ touched = {}
    /\ gate = "none"
    /\ trace = << >>
    /\ last = NoCall
    /\ sleeps = 0
    /\ authFails = 0
    /\ failedPorts = {}
    /\ failedFabric = {}
    /\ before = NoPartition
    /\ streak = [b \in Bigips |-> 0]
    /\ previous = [b \in Bigips |-> "none"]
    /\ clean = TRUE
    /\ recovered = FALSE
    /\ fabricArgs = NoArgs
    /\ traffic_group = ""
    /\ found = [b \in Bigips |-> "none"]
    /\ created = [b \in Bigips |-> 0]

\* the service names one appliance
Init ==
    /\ bigips = << 1 >>
    /\ Contents({1})
    /\ Idle

(***************************************************************************)
(* Shorthands of the actions.                                              *)
(***************************************************************************)
Called(call, name, out) ==
    /\ last' = [call |-> call, name |-> name, out |-> out]
    /\ touched' = touched \cup {bigips[idx]}
    /\ clean' = (clean /\ out = NoError)

Logged(call, name) == trace' = Append(trace, [call |-> call, name |-> name])

\* a variant of Raise with the exception caught in the loop over the
\* appliances, which goes on
RaiseCaughtInLoop(err) ==
    /\ pc' = "loop"
    /\ outcome' = [outcome EXCEPT ![bigips[idx]] = "raised"]
    /\ UNCHANGED result

\* the teardown of the appliance raises: assure_tenant_cleanup has no
\* except clause, so its loop ends and the caller gets the exception
Raise(err) ==
    /\ pc' = "done"
    /\ result' = RaisedTo(err)
    /\ outcome' = [outcome EXCEPT ![bigips[idx]] = "raised"]

\* the teardown of the appliance returns to the loop of assure_tenant_cleanup
Return(how) ==
    /\ pc' = "loop"
    /\ outcome' = [outcome EXCEPT ![bigips[idx]] = how]
    /\ UNCHANGED result

Goto(l) ==
    /\ pc' = l.pc
    /\ rtypes' = l.rtypes
    /\ pending' = l.pending

(***************************************************************************)
(* assure_tenant_cleanup(service) is called.                               *)
(***************************************************************************)
Invoke ==
    /\ pc \in {"idle", "done"}
    /\ invocations < MaxInvocations
    /\ invocations' = invocations + 1
    /\ pc' = "loop"
    /\ idx' = 0
    /\ result' = Running
    /\ outcome' = [b \in Bigips |-> "none"]
    /\ touched' = {}
    /\ domain_names' = << >>
    /\ rtypes' = << >>
    /\ pending' = << >>
    /\ attempt' = 0
    /\ gate' = "none"
    /\ trace' = << >>
    /\ last' = NoCall
    /\ sleeps' = 0
    /\ authFails' = 0
    /\ failedPorts' = {}
    /\ failedFabric' = {}
    /\ before' = NoPartition
    /\ previous' = outcome
    /\ clean' = TRUE
    /\ recovered' = FALSE
    /\ fabricArgs' = NoArgs
    /\ UNCHANGED << device, bigips, streak, creation >>

(***************************************************************************)
(* for bigip in service['bigips']: the next appliance's teardown starts.   *)
(***************************************************************************)
NextBigip ==
    /\ pc = "loop"
    /\ idx < Len(bigips)
    /\ idx' = idx + 1
    /\ pc' = "query"
    /\ domain_names' = << >>
    /\ rtypes' = << >>
    /\ pending' = << >>
    /\ attempt' = 0
    /\ gate' = "none"
    /\ trace' = << >>
    /\ last' = NoCall
    /\ sleeps' = 0
    /\ authFails' = 0
    /\ failedPorts' = {}
    /\ failedFabric' = {}
    /\ before' = Partition(bigips[idx + 1])
    /\ streak' = [streak EXCEPT ![bigips[idx + 1]] =
                     IF folder[bigips[idx + 1]] THEN 0 ELSE @ + 1]
    /\ clean' = TRUE
    /\ recovered' = FALSE
    /\ fabricArgs' = NoArgs
    /\ UNCHANGED << device, bigips, result, invocations, outcome, touched,
                    previous, creation >>

(***************************************************************************)
(* The loop over service['bigips'] is over: assure_tenant_cleanup returns. *)
(***************************************************************************)
CleanupReturns ==
    /\ pc = "loop"
    /\ idx = Len(bigips)
    /\ pc' = "done"
    /\ result' = Returned
    /\ UNCHANGED << device, bigips, idx, domain_names, rtypes, pending, attempt,
                    history, creation >>

(***************************************************************************)
(* A variant of the query of the route-domain names in a try block of its  *)
(* own: a query that raises gives no name, and the teardown goes on.       *)
(***************************************************************************)
QueryRouteDomainsGuarded ==
    /\ pc = "query"
    /\ \E out \in { NoError, HTTPError(500) } :
          /\ Called("get_route_domain_names", "partition", out)
          /\ domain_names' = IF out = NoError
                             THEN get_route_domain_names(rds[bigips[idx]])
                             ELSE << >>
    /\ pc' = "gate"
    /\ UNCHANGED << device, bigips, idx, rtypes, pending, attempt, result,
                    invocations, outcome, gate, trace, sleeps, authFails,
                    failedPorts, failedFabric, before, streak, previous,
                    recovered, fabricArgs, creation >>

(***************************************************************************)
(* domain_names = get_route_domain_names(bigip, partition), which is not   *)
(* in a try block.                                                         *)
(***************************************************************************)
QueryRouteDomains ==
    /\ pc = "query"
    /\ \E out \in { NoError, HTTPError(500) } :
          /\ Called("get_route_domain_names", "partition", out)
          /\ IF out = NoError
             THEN /\ domain_names' = get_route_domain_names(rds[bigips[idx]])
                  /\ pc' = "gate"
                  /\ UNCHANGED << result, outcome >>
             ELSE /\ Raise(out)
                  /\ UNCHANGED domain_names
    /\ UNCHANGED << device, bigips, idx, rtypes, pending, attempt, invocations,
                    gate, trace, sleeps, authFails, failedPorts,
                    failedFabric, before, streak, previous,
                    recovered, fabricArgs, creation >>

(***************************************************************************)
(* if not self._partition_empty(bigip, partition): return.  Otherwise the  *)
(* port loop starts with its first listing.                                *)
(***************************************************************************)
CheckPartitionEmpty ==
    /\ pc = "gate"
    /\ Called("_partition_empty", "partition", NoError)
    /\ IF _partition_empty(vaddrs[bigips[idx]], nodes[bigips[idx]])
       THEN /\ gate' = "true"
            /\ Goto(PortLoop(PortTypes, res[bigips[idx]], domain_names))
            /\ UNCHANGED << result, outcome >>
       ELSE /\ gate' = "false"
            /\ Return("not_empty")
            /\ UNCHANGED << rtypes, pending >>
    /\ UNCHANGED << device, bigips, idx, domain_names, attempt, invocations, trace,
                    sleeps, authFails, failedPorts, failedFabric, before,
                    streak, previous,
                    recovered, fabricArgs, creation >>

(***************************************************************************)
(* self.driver.plugin_rpc.delete_port_by_name(port_name=r.name) for the    *)
(* next instance of the port loop, in its try block.                       *)
(***************************************************************************)
DeletePort ==
    /\ pc = "ports"
    /\ LET r == Head(pending)
           more == IF Tail(pending) # << >>
                   THEN [pc |-> "ports", rtypes |-> rtypes,
                         pending |-> Tail(pending)]
                   ELSE PortLoop(Tail(rtypes), res[bigips[idx]], domain_names)
       IN  \E out \in { NoError, OtherError } :
              /\ Called("delete_port_by_name", r, out)
              /\ Logged("delete_port_by_name", r)
              /\ IF out = NoError \/ ExceptPort(out) = "pass"
                 THEN /\ Goto(more)
                      /\ UNCHANGED << result, outcome >>
                 ELSE /\ Raise(out)
                      /\ UNCHANGED << rtypes, pending >>
              /\ failedPorts' = IF out = NoError THEN failedPorts
                                ELSE failedPorts \cup {r}
    /\ UNCHANGED << device, bigips, idx, domain_names, attempt, invocations, gate,
                    sleeps, authFails, failedFabric, before, streak, previous,
                    recovered, fabricArgs, creation >>

(***************************************************************************)
(* A variant of the loop test that lets one more attempt through.          *)
(***************************************************************************)
WhileLoopOneMore(att, present) ==
    IF att < max_attempt + 1
    THEN [pc |-> "delete", rtypes |-> rtypes, pending |-> pending,
          attempt |-> att]
    ELSE IF Tail(pending) # << >>
         THEN [pc |-> "delete", rtypes |-> rtypes,
               pending |-> Tail(pending), attempt |-> 0]
         ELSE [attempt |-> 0] @@
              DeleteLoop(Tail(rtypes), present, domain_names)

(***************************************************************************)
(* The end of one pass of "while attempt < max_attempt" that did not       *)
(* raise (the try block or an except clause ended, or "continue"): the     *)
(* loop test is made again, and past the last attempt the for-loops move   *)
(* to the next instance.                                                   *)
(***************************************************************************)
WhileLoop(att, present) ==
    IF att < max_attempt
    THEN [pc |-> "delete", rtypes |-> rtypes, pending |-> pending,
          attempt |-> att]
    ELSE IF Tail(pending) # << >>
         THEN [pc |-> "delete", rtypes |-> rtypes,
               pending |-> Tail(pending), attempt |-> 0]
         ELSE [attempt |-> 0] @@
              DeleteLoop(Tail(rtypes), present, domain_names)

GotoAttempt(l) ==
    /\ Goto(l)
    /\ attempt' = l.attempt

(***************************************************************************)
(* What follows a call of the try block that raised err at attempt att     *)
(* (slept: the sleeps of this retry loop so far).                          *)
(***************************************************************************)
Handle(err, att, slept, present) ==
    CASE ExceptDelete(err, att) = "sleep" ->
           /\ sleeps' = slept + interval
           /\ GotoAttempt(WhileLoop(att, present))
           /\ UNCHANGED << result, outcome >>
      [] ExceptDelete(err, att) = "pass" ->
           /\ sleeps' = slept
           /\ GotoAttempt(WhileLoop(att, present))
           /\ UNCHANGED << result, outcome >>
      [] OTHER ->
           /\ sleeps' = slept
           /\ Raise(err)
           /\ attempt' = att
           /\ UNCHANGED << rtypes, pending >>

(***************************************************************************)
(* One attempt of the retry loop on the next instance: attempt is          *)
(* counted, the tag is read and r.delete() is called.  A delete that       *)
(* returns removes the instance from the appliance; with a tag the F5OS    *)
(* call of the same try block comes next.  The first attempt on an         *)
(* instance starts its counts of sleeps and of 401s.                       *)
(***************************************************************************)
DeleteResource ==
    /\ pc = "delete"
    /\ LET r == Head(pending)
           att == attempt + 1
           t == TagRead(r)
           slept == IF attempt = 0 THEN 0 ELSE sleeps
           failed == IF attempt = 0 THEN 0 ELSE authFails
       IN  \E out \in Outcomes :
              /\ Called("delete", r, out)
              /\ Logged("delete", r)
              /\ authFails' = IF out = HTTPError(AUTH_EXPIRED)
                              THEN failed + 1 ELSE failed
              /\ recovered' = IF out = NoError /\ failed >= 1 THEN TRUE
                              ELSE IF attempt = 0 THEN FALSE ELSE recovered
              /\ IF out = NoError
                 THEN /\ res' = [res EXCEPT ![bigips[idx]] = @ \ {r}]
                      /\ sleeps' = slept
                      /\ IF t # 0
                         THEN GotoAttempt([pc |-> "fabric", rtypes |-> rtypes,
                                           pending |-> pending,
                                           attempt |-> att])
                         ELSE GotoAttempt(WhileLoop(att,
                                                    res[bigips[idx]] \ {r}))
                      /\ UNCHANGED << result, outcome >>
                 ELSE /\ Handle(out, att, slept, res[bigips[idx]])
                      /\ UNCHANGED res
    /\ UNCHANGED << folder, vaddrs, nodes, rds, bigips, idx, domain_names,
                    invocations, gate, failedPorts, failedFabric, before,
                    streak, previous,
                    fabricArgs, creation >>

(***************************************************************************)
(* _delete_f5os_vlan_network(bigip.hostname, tag), in the same try block   *)
(* as the delete of the VLAN, after that delete returned.                  *)
(***************************************************************************)
DeleteF5osVlan ==
    /\ pc = "fabric"
    /\ LET r == Head(pending)
       IN  \E out \in Outcomes :
              /\ Called("_delete_f5os_vlan_network", r, out)
              /\ Logged("_delete_f5os_vlan_network", r)
              /\ fabricArgs' = [hostname |-> hostname(bigips[idx]),
                                 tag |-> TagRead(r)]
              /\ failedFabric' = IF out = NoError THEN failedFabric
                                 ELSE failedFabric \cup {r}
              /\ IF out = NoError
                 THEN /\ GotoAttempt(WhileLoop(attempt, res[bigips[idx]]))
                      /\ UNCHANGED << result, outcome, sleeps >>
                 ELSE Handle(out, attempt, sleeps, res[bigips[idx]])
    /\ UNCHANGED << device, bigips, idx, domain_names, invocations, gate,
                    authFails, failedPorts, before, streak, previous,
                    recovered, creation >>

(***************************************************************************)
(* delete_route_domain(bigip, partition, domain_name) for the next name    *)
(* of domain_names, in its try block.                                      *)
(***************************************************************************)
DeleteRouteDomain ==
    /\ pc = "rdomains"
    /\ LET d == Head(pending)
       IN  \E out \in Outcomes :
              /\ Called("delete_route_domain", d, out)
              /\ Logged("delete_route_domain", d)
              /\ rds' = IF out = NoError
                        THEN [rds EXCEPT ![bigips[idx]] = @ \ {d}]
                        ELSE rds
              /\ IF out = NoError \/ ExceptRouteDomain(out) = "pass"
                 THEN /\ Goto(AfterDeletes(Tail(pending)))
                      /\ UNCHANGED << result, outcome >>
                 ELSE /\ Raise(out)
                      /\ UNCHANGED << rtypes, pending >>
    /\ UNCHANGED << folder, vaddrs, nodes, res, bigips, idx, domain_names, attempt,
                    invocations, gate, sleeps, authFails, failedPorts,
                    failedFabric, before, streak, previous,
                    recovered, fabricArgs, creation >>

(***************************************************************************)
(* self.system_helper.delete_folder(bigip, partition), in its try block;   *)
(* after it the teardown of the appliance returns.                         *)
(***************************************************************************)
DeleteFolder ==
    /\ pc = "folder"
    /\ \E out \in Outcomes :
          /\ Called("delete_folder", "partition", out)
          /\ Logged("delete_folder", "partition")
          /\ folder' = IF out = NoError
                       THEN [folder EXCEPT ![bigips[idx]] = FALSE]
                       ELSE folder
          /\ IF out = NoError \/ ExceptFolder(out) = "pass"
             THEN Return("deleted")
             ELSE Raise(out)
    /\ UNCHANGED << vaddrs, nodes, res, rds, bigips, idx, domain_names, rtypes,
                    pending, attempt, invocations, gate, sleeps, authFails,
                    failedPorts, failedFabric, before, streak, previous,
                    recovered, fabricArgs, creation >>

(***************************************************************************)
(* Between two teardowns another subsystem removes a virtual address or a  *)
(* node of the partition (the teardown is the only actor while it runs).   *)
(***************************************************************************)
RemoveLoadBearing ==
    /\ pc \in {"idle", "done"}
    /\ \E b \in Bigips :
          \/ /\ vaddrs[b] # {}
             /\ vaddrs' = [vaddrs EXCEPT ![b] = {}]
             /\ UNCHANGED nodes
          \/ /\ nodes[b] # {}
             /\ nodes' = [nodes EXCEPT ![b] = {}]
             /\ UNCHANGED vaddrs
    /\ UNCHANGED << folder, res, rds, manager, history, creation >>

Next ==
    \/ Invoke
    \/ NextBigip
    \/ CleanupReturns
    \/ QueryRouteDomains
    \/ CheckPartitionEmpty
    \/ DeletePort
    \/ DeleteResource
    \/ DeleteF5osVlan
    \/ DeleteRouteDomain
    \/ DeleteFolder
    \/ RemoveLoadBearing

Spec == Init /\ [][Next]_vars

(***************************************************************************)
(* The service names every appliance (replication mode): each holds a      *)
(* copy of the partition, with the same contents when the teardown is      *)
(* first called: at most one typed resource and one route domain, and no   *)
(* node (the number of appliances is what varies here).                    *)
(***************************************************************************)
InitMulti ==
    /\ bigips = [i \in 1 .. NumBigips |-> i]
    /\ Contents(Bigips)
    /\ \A b \in Bigips : /\ Cardinality(res[b]) <= 1
                         /\ Cardinality(rds[b]) <= 1
                         /\ nodes[b] = {}
    /\ Idle

SpecMulti == InitMulti /\ [][Next]_vars

(***************************************************************************)
(* One call of assure_tenant_cleanup, from the caller's call to its end.   *)
(* A call that has started runs on: every call it makes returns or         *)
(* raises, and sleep(interval) returns.  When the caller makes its call,   *)
(* and when another subsystem removes a virtual address or a node, is      *)
(* left open.                                                              *)
(***************************************************************************)
InvokeOnce ==
    /\ invocations = 0
    /\ Invoke

Run ==
    \/ NextBigip
    \/ CleanupReturns
    \/ QueryRouteDomains
    \/ CheckPartitionEmpty
    \/ DeletePort
    \/ DeleteResource
    \/ DeleteF5osVlan
    \/ DeleteRouteDomain
    \/ DeleteFolder

NextOnce ==
    \/ InvokeOnce
    \/ NextBigip
    \/ CleanupReturns
    \/ QueryRouteDomains
    \/ CheckPartitionEmpty
    \/ DeletePort
    \/ DeleteResource
    \/ DeleteF5osVlan
    \/ DeleteRouteDomain
    \/ DeleteFolder
    \/ RemoveLoadBearing

FairSpec == Init /\ [][NextOnce]_vars /\ WF_vars(Run)

(***************************************************************************)
(* SystemHelper.folder_exists(bigip, folder_name): whether the partition   *)
(* is on the appliance.                                                    *)
(***************************************************************************)
folder_exists(present) == present

\* a variant of the test of line 70 that takes every partition as absent
FolderAbsentAlways(exists) == TRUE

\* "if not self.system_helper.folder_exists(bigip, folder_name)"
FolderAbsent(exists) == ~exists

(***************************************************************************)
(* assure_tenant_created(service, sync) is called: the traffic group is    *)
(* written into the service, and the loop over service['bigips'] starts.   *)
(***************************************************************************)
InvokeCreate ==
    /\ pc \in {"idle", "done"}
    /\ invocations < MaxInvocations
    /\ invocations' = invocations + 1
    /\ traffic_group' = TrafficGroup
    /\ pc' = "exists"
    /\ idx' = 0
    /\ result' = Running
    /\ touched' = {}
    /\ last' = NoCall
    /\ clean' = TRUE
    /\ found' = [b \in Bigips |-> "none"]
    /\ created' = [b \in Bigips |-> 0]
    /\ UNCHANGED << device, bigips, domain_names, rtypes, pending, attempt,
                    outcome, gate, trace, sleeps, authFails, failedPorts,
                    failedFabric, before, streak, previous, recovered,
                    fabricArgs >>

(***************************************************************************)
(* for bigip in service['bigips']: folder_exists is called for the next    *)
(* appliance, outside any try block; an absent partition is created next.  *)
(***************************************************************************)
FolderExists ==
    /\ pc = "exists"
    /\ idx < Len(bigips)
    /\ idx' = idx + 1
    /\ LET b == bigips[idx + 1]
       IN  \E out \in { NoError } \cup Raised :
              /\ last' = [call |-> "folder_exists", name |-> "partition",
                          out |-> out]
              /\ touched' = touched \cup {b}
              /\ clean' = (clean /\ out = NoError)
              /\ IF out = NoError
                 THEN /\ found' = [found EXCEPT ![b] =
                                      IF folder_exists(folder[b])
                                      THEN "exists" ELSE "absent"]
                      /\ pc' = IF FolderAbsent(folder_exists(folder[b]))
                               THEN "create" ELSE "exists"
                      /\ UNCHANGED result
                 ELSE /\ found' = [found EXCEPT ![b] = "raised"]
                      /\ pc' = "done"
                      /\ result' = RaisedTo(out)
    /\ UNCHANGED << device, bigips, domain_names, rtypes, pending, attempt,
                    invocations, outcome, gate, trace, sleeps, authFails,
                    failedPorts, failedFabric, before, streak, previous,
                    recovered, fabricArgs, traffic_group, created >>

(***************************************************************************)
(* self.system_helper.create_folder(bigip, folder), in its try block:      *)
(* whatever it raises is logged and SystemCreationException is raised.     *)
(***************************************************************************)
CreateFolder ==
    /\ pc = "create"
    /\ \E out \in Outcomes :
          /\ Called("create_folder", "partition", out)
          /\ created' = [created EXCEPT ![bigips[idx]] = @ + 1]
          /\ IF out = NoError
             THEN /\ folder' = [folder EXCEPT ![bigips[idx]] = TRUE]
                  /\ pc' = "exists"
                  /\ UNCHANGED result
             ELSE /\ pc' = "done"
                  /\ result' = RaisedTo(SystemCreationException)
                  /\ UNCHANGED folder
    /\ UNCHANGED << vaddrs, nodes, res, rds, bigips, idx, domain_names, rtypes,
                    pending, attempt, invocations, outcome, gate, trace,
                    sleeps, authFails, failedPorts, failedFabric, before,
                    streak, previous, recovered, fabricArgs, traffic_group,
                    found >>

(***************************************************************************)
(* The loop over service['bigips'] is over: assure_tenant_created returns. *)
(***************************************************************************)
CreateReturns ==
    /\ pc = "exists"
    /\ idx = Len(bigips)
    /\ pc' = "done"
    /\ result' = Returned
    /\ UNCHANGED << device, bigips, idx, domain_names, rtypes, pending, attempt,
                    history, creation >>

NextCreate ==
    \/ InvokeCreate
    \/ FolderExists
    \/ CreateFolder
    \/ CreateReturns

(***************************************************************************)
(* The tenant is provisioned on the appliances of the service, some of     *)
(* which may hold the partition already.                                   *)
(***************************************************************************)
InitCreate ==
    /\ bigips = [i \in 1 .. NumBigips |-> i]
    /\ folder \in [Bigips -> BOOLEAN]
    /\ res = [b \in Bigips |-> {}]
    /\ rds = [b \in Bigips |-> {}]
    /\ vaddrs = [b \in Bigips |-> {}]
    /\ nodes = [b \in Bigips |-> {}]
    /\ Idle

SpecCreate == InitCreate /\ [][NextCreate]_vars

(***************************************************************************)
(* Vocabulary of the properties.                                           *)
(***************************************************************************)
\* a teardown has started in this invocation: the history is the one of
\* the teardown of bigips[idx]
InTeardown == idx >= 1

\* that teardown is over: it returned to the loop, or it raised
Ended == InTeardown /\ pc \in {"loop", "done"}

Calls(call) == { i \in DOMAIN trace : trace[i].call = call }

Count(call, name) ==
    Cardinality({ i \in Calls(call) : trace[i].name = name })

LoadBearing(b) == vaddrs[b] # {} \/ nodes[b] # {}

PortBound(present) ==
    { r \in present : ResourceType(r) \in {"snat_translation", "selfip"} }

\* the phase of a call in the order the teardown is to follow: callbacks,
\* then the deletes by type (the F5OS cleanup goes with the VLAN deletes),
\* then the route domains, then the folder
Phase(e) ==
    CASE e.call = "delete_port_by_name" -> 0
      [] e.call = "delete" /\ ResourceType(e.name) = "snat" -> 1
      [] e.call = "delete" /\ ResourceType(e.name) = "snatpool" -> 2
      [] e.call = "delete" /\ ResourceType(e.name) = "snat_translation" -> 3
      [] e.call = "delete" /\ ResourceType(e.name) = "selfip" -> 4
      [] e.call = "delete" /\ ResourceType(e.name) = "vlan" -> 5
      [] e.call = "_delete_f5os_vlan_network" -> 5
      [] e.call = "delete_route_domain" -> 6
      [] OTHER -> 7

(***************************************************************************)
(* C1.  Emptiness gate: every callback and every delete of a teardown      *)
(* (port callback, resource delete, F5OS cleanup, route-domain delete,     *)
(* folder delete) comes after _partition_empty returned true in that       *)
(* teardown; and wherever a teardown has deleted the folder of an          *)
(* appliance, the partition holds no virtual address and no node.          *)
(***************************************************************************)
EmptinessGate ==
    /\ InTeardown /\ trace # << >> => gate = "true"
    /\ InTeardown /\ last.call = "delete_folder" =>
          ~LoadBearing(bigips[idx])
    /\ \A b \in Bigips : outcome[b] = "deleted" => ~LoadBearing(b)

EmptinessGateWitness ==
    /\ InTeardown
    /\ outcome[bigips[idx]] = "deleted"
    /\ ~folder[bigips[idx]]
    /\ before.folder /\ before.res # {} /\ before.rds # {}
    /\ Calls("delete") # {} /\ Calls("delete_route_domain") # {}

(***************************************************************************)
(* C2, as the claim states it.  A teardown of a partition that holds a     *)
(* virtual address or a node makes no callback and no delete, leaves the   *)
(* partition as it found it, and returns without an error.                 *)
(***************************************************************************)
NoOpOnNonEmptyAlways ==
    InTeardown /\ LoadBearing(bigips[idx]) =>
       /\ trace = << >>
       /\ Partition(bigips[idx]) = before
       /\ pc \in {"query", "gate", "loop", "done"}
       /\ outcome[bigips[idx]] # "raised"
       /\ Ended => outcome[bigips[idx]] = "not_empty"

(***************************************************************************)
(* C2, amended.  A teardown of a partition that holds a virtual address    *)
(* or a node makes no callback and no delete and leaves the partition as   *)
(* it found it; it returns without an error unless the query of the        *)
(* route-domain names, which comes before the emptiness check, raised.     *)
(***************************************************************************)
NoOpOnNonEmpty ==
    InTeardown /\ LoadBearing(bigips[idx]) =>
       /\ trace = << >>
       /\ Partition(bigips[idx]) = before
       /\ pc \in {"query", "gate", "loop", "done"}
       /\ outcome[bigips[idx]] = "raised" =>
             /\ last.call = "get_route_domain_names"
             /\ last.out # NoError
             /\ gate = "none"
       /\ Ended /\ outcome[bigips[idx]] # "raised" =>
             /\ outcome[bigips[idx]] = "not_empty"
             /\ gate = "false"

NoOpOnNonEmptyWitness ==
    /\ InTeardown
    /\ LoadBearing(bigips[idx])
    /\ pc = "done"
    /\ result = Returned
    /\ outcome[bigips[idx]] = "not_empty"
    /\ before.res # {} /\ before.rds # {}

(***************************************************************************)
(* C3.  Phase ordering within one teardown: the port callbacks (made for   *)
(* SnatTranslation and SelfIP instances only) come before every device     *)
(* delete; the device deletes come by type in the order Snat, SnatPool,    *)
(* SnatTranslation, SelfIP, VLAN; every device delete and every F5OS       *)
(* cleanup comes before every route-domain delete; every route-domain      *)
(* delete comes before the folder delete, of which there is at most one.   *)
(* It is stated of the newest call of the teardown against the call       *)
(* before it: trace only grows, by one call at a time, so what holds of    *)
(* the newest call in every state holds of every call, and no call being   *)
(* of an earlier phase than the one before it orders all of them.          *)
(***************************************************************************)
PhaseOrdering ==
    trace # << >> =>
       LET n == Len(trace)
           e == trace[n]
       IN  /\ e.call = "delete_port_by_name" =>
                 ResourceType(e.name) \in {"snat_translation", "selfip"}
           /\ n >= 2 =>
                 /\ Phase(trace[n - 1]) <= Phase(e)
                 /\ trace[n - 1].call # "delete_folder"

PhaseOrderingWitness ==
    /\ Ended
    /\ Calls("delete_port_by_name") # {}
    /\ Cardinality({ ResourceType(trace[i].name) : i \in Calls("delete") }) = 2
    /\ Calls("_delete_f5os_vlan_network") # {}
    /\ Calls("delete_route_domain") # {}
    /\ Calls("delete_folder") # {}

(***************************************************************************)
(* C4.  Retry on sustained authentication failure: while every delete      *)
(* attempt on an instance has raised a 401, one sleep has followed each    *)
(* of the first two attempts and the instance is tried again; the third    *)
(* 401 is raised to the caller after 3 attempts and 2 sleeps, and the      *)
(* teardown ends there, with that delete as its last call.                 *)
(***************************************************************************)
RetryOnAuthExpired ==
    InTeardown /\ last.call = "delete"
               /\ authFails = Count("delete", last.name) =>
       /\ authFails <= 3
       /\ authFails < 3 =>
             /\ sleeps = authFails
             /\ pc = "delete"
             /\ Head(pending) = last.name
             /\ result = Running
       /\ authFails = 3 =>
             /\ sleeps = 2
             /\ pc = "done"
             /\ result = RaisedTo(HTTPError(401))
             /\ outcome[bigips[idx]] = "raised"
             /\ trace[Len(trace)] = [call |-> "delete", name |-> last.name]

RetryOnAuthExpiredWitness ==
    /\ InTeardown
    /\ last.call = "delete"
    /\ authFails = 3
    /\ Count("delete", last.name) = 3
    /\ result.status = "raised"
    /\ Len(pending) = 2
    /\ before.rds # {}

(***************************************************************************)
(* C5, as the claim states it.  A delete attempt that raises anything but  *)
(* a 401 (an HTTPError with another status, any other exception) is the    *)
(* last attempt on the instance: no sleep and no call follows it, and its  *)
(* error is raised to the caller at once.                                  *)
(***************************************************************************)
NoRetryOnOtherErrors ==
    InTeardown /\ last.call = "delete"
               /\ last.out \in { HTTPError(500), OtherError } =>
       /\ pc = "done"
       /\ result = RaisedTo(last.out)
       /\ outcome[bigips[idx]] = "raised"

(***************************************************************************)
(* C6, as the claim states it.  Whenever delete_route_domain is called,    *)
(* no Snat, SnatPool, SnatTranslation, SelfIP or VLAN is left in the       *)
(* partition, whatever the outcomes of the delete calls before it.         *)
(***************************************************************************)
RouteDomainLast ==
    InTeardown /\ last.call = "delete_route_domain" =>
       res[bigips[idx]] = {}

(***************************************************************************)
(* C7, as the claim states it.  Once _delete_f5os_vlan_network has raised  *)
(* (whatever it raised), no route-domain delete and no folder delete is    *)
(* made in that teardown, and the teardown ends with an error raised to    *)
(* the caller.                                                             *)
(***************************************************************************)
FabricFailurePropagated ==
    InTeardown /\ failedFabric # {} =>
       /\ Calls("delete_route_domain") = {}
       /\ Calls("delete_folder") = {}
       /\ Ended => outcome[bigips[idx]] = "raised"

\* the callbacks are over: every port-bound instance the teardown found
\* has had its callback, once, and no callback raised to the caller
PortCallbacksMade ==
    /\ InTeardown /\ last.call = "delete_port_by_name" =>
          result.status # "raised"
    /\ failedPorts \subseteq { trace[i].name : i \in Calls("delete_port_by_name") }
    /\ InTeardown /\ gate = "true" /\ pc # "ports" =>
          \A r \in PortBound(before.res) : Count("delete_port_by_name", r) = 1

(***************************************************************************)
(* C8, as the claim states it.  Whichever callbacks raise, the callback    *)
(* is still made for every other port-bound instance, no error of a        *)
(* callback reaches the caller, and every instance whose callback raised   *)
(* is deleted from the appliance by the time the teardown ends.            *)
(***************************************************************************)
BestEffortThenDeleted ==
    /\ PortCallbacksMade
    /\ Ended /\ gate = "true" =>
          \A r \in failedPorts : r \notin res[bigips[idx]]

(***************************************************************************)
(* C8, amended.  Whichever callbacks raise, the callback is still made     *)
(* for every other port-bound instance and no error of a callback reaches  *)
(* the caller; the required deletion phase then runs, and every instance   *)
(* whose callback raised gets its r.delete() call there unless a delete    *)
(* of that phase raised to the caller before its turn.                     *)
(***************************************************************************)
BestEffortThenDeleteCalled ==
    /\ PortCallbacksMade
    /\ InTeardown /\ gate = "true" /\ pc \notin {"ports", "delete", "fabric"} =>
          \A r \in failedPorts :
             \/ Count("delete", r) >= 1
             \/ /\ outcome[bigips[idx]] = "raised"
                /\ last.call = "delete"
                /\ Phase([call |-> "delete", name |-> last.name])
                      <= Phase([call |-> "delete", name |-> r])

BestEffortWitness ==
    /\ Ended
    /\ outcome[bigips[idx]] = "deleted"
    /\ failedPorts = {"snat_translation_a"}
    /\ Count("delete_port_by_name", "selfip_a") = 1
    /\ Count("delete", "snat_translation_a") >= 1
    /\ "snat_translation_a" \notin res[bigips[idx]]

(***************************************************************************)
(* C9.  A delete_route_domain that raises ends the teardown: it is the     *)
(* last call made, no folder delete was or is made, and the caller gets    *)
(* the very error the call raised.                                         *)
(***************************************************************************)
RouteDomainFailureStops ==
    InTeardown /\ last.call = "delete_route_domain" /\ last.out # NoError =>
       /\ pc = "done"
       /\ result = RaisedTo(last.out)
       /\ outcome[bigips[idx]] = "raised"
       /\ Calls("delete_folder") = {}
       /\ Count("delete_route_domain", last.name) = 1
       /\ folder[bigips[idx]] = before.folder

RouteDomainFailureWitness ==
    /\ InTeardown
    /\ last.call = "delete_route_domain"
    /\ last.out # NoError
    /\ result.status = "raised"
    /\ Len(pending) = 2
    /\ Head(pending) = last.name
    /\ before.folder

\* the running teardown found the partition deleted and empty
FoundDeleted ==
    /\ InTeardown
    /\ streak[bigips[idx]] >= 1
    /\ before = NoPartition
    /\ ~LoadBearing(bigips[idx])

(***************************************************************************)
(* C10, as the claim states it, read for the teardowns in which no call    *)
(* raises.  A teardown of a partition that is already empty and deleted    *)
(* makes no mutating call (no callback, no resource delete, no             *)
(* route-domain delete, no folder delete) and returns without an error,    *)
(* the first time and the times after it.                                  *)
(***************************************************************************)
IdempotentNoCall ==
    FoundDeleted /\ last.out = NoError =>
       /\ trace = << >>
       /\ outcome[bigips[idx]] # "raised"

(***************************************************************************)
(* C10, amended.  A teardown of a partition that is already empty and      *)
(* deleted makes no callback, no resource delete and no route-domain       *)
(* delete, and leaves the appliance as it is, the first time and the       *)
(* times after it; it does call delete_folder, once, and returns without   *)
(* an error unless that call or the query of the route-domain names        *)
(* raised, whose error the caller then gets.                               *)
(***************************************************************************)
IdempotentButFolderCall ==
    FoundDeleted =>
       /\ \A i \in DOMAIN trace : trace[i].call = "delete_folder"
       /\ Len(trace) <= 1
       /\ Partition(bigips[idx]) = NoPartition
       /\ last.call \in {"get_route_domain_names", "delete_folder"}
             /\ last.out # NoError =>
             /\ pc = "done"
             /\ result = RaisedTo(last.out)
       /\ outcome[bigips[idx]] = "raised" =>
             /\ last.call \in {"get_route_domain_names", "delete_folder"}
             /\ last.out # NoError
       /\ Ended /\ outcome[bigips[idx]] # "raised" =>
             /\ outcome[bigips[idx]] = "deleted"
             /\ Len(trace) = 1

IdempotentWitness ==
    /\ FoundDeleted
    /\ streak[bigips[idx]] = 2
    /\ previous[bigips[idx]] = "deleted"
    /\ outcome[bigips[idx]] = "deleted"
    /\ pc = "done"
    /\ result = Returned
    /\ Len(trace) = 1

(***************************************************************************)
(* C11.  Resumable, forward-only teardown: when the teardown of an         *)
(* appliance ended with an error raised to the caller (in whichever        *)
(* phase), a teardown of that appliance in the next invocation in which    *)
(* no call raises and which finds no virtual address and no node ends      *)
(* without an error, with the folder deleted and no Snat, SnatPool,        *)
(* SnatTranslation, SelfIP, VLAN or route domain left in the partition.    *)
(***************************************************************************)
ResumableTeardown ==
    /\ InTeardown /\ previous[bigips[idx]] = "raised" /\ clean
                  /\ gate = "true" =>
          /\ outcome[bigips[idx]] # "raised"
          /\ result.status # "raised"
          /\ Ended =>
                /\ outcome[bigips[idx]] = "deleted"
                /\ Partition(bigips[idx]) = NoPartition
    /\ InTeardown /\ previous[bigips[idx]] = "raised" /\ clean
                  /\ pc = "done" /\ gate = "true" =>
          result = Returned

ResumableTeardownWitness ==
    /\ InTeardown
    /\ previous[bigips[idx]] = "raised"
    /\ clean
    /\ pc = "done"
    /\ outcome[bigips[idx]] = "deleted"
    /\ before.folder
    /\ before.res # {}
    /\ before.rds # {}

\* the appliances of service['bigips'] before, at and after the one whose
\* teardown is running
Earlier == { bigips[j] : j \in 1 .. (idx - 1) }
Later == { bigips[j] : j \in (idx + 1) .. Len(bigips) }

\* a step leaves appliance b as it is
Untouched(b) ==
    /\ folder'[b] = folder[b]
    /\ res'[b] = res[b]
    /\ rds'[b] = rds[b]
    /\ vaddrs'[b] = vaddrs[b]
    /\ nodes'[b] = nodes[b]

(***************************************************************************)
(* C12.  Abort on first failure across appliances: the appliances are      *)
(* torn down in the order of service['bigips']; when the teardown of one   *)
(* raises, assure_tenant_cleanup ends there with that error, and no call   *)
(* of any kind is made on a later appliance in that invocation; the        *)
(* appliances before it had their teardown returned, and no step of the    *)
(* invocation changes an appliance other than the one being torn down.     *)
(***************************************************************************)
AbortOnFirstFailure ==
    /\ [](InTeardown =>
            /\ touched \subseteq Earlier \cup {bigips[idx]}
            /\ \A b \in Later : outcome[b] = "none"
            /\ \A b \in Earlier : outcome[b] \in {"not_empty", "deleted"}
            /\ outcome[bigips[idx]] = "raised" =>
                  /\ pc = "done"
                  /\ result = RaisedTo(last.out)
                  /\ last.out # NoError
            /\ result.status = "raised" => outcome[bigips[idx]] = "raised")
    /\ [][/\ pc \notin {"idle", "done"} =>
                \A b \in Bigips : b # bigips[idx'] => Untouched(b)
          /\ pc = "done" =>
                \/ last' = last /\ touched' = touched /\ trace' = trace
                \/ invocations' = invocations + 1]_vars

AbortOnFirstFailureWitness ==
    /\ Len(bigips) >= 2
    /\ idx = 1
    /\ pc = "done"
    /\ result.status = "raised"
    /\ res[bigips[1]] # before.res
    /\ touched = {bigips[1]}
    /\ \A b \in Later : folder[b] /\ res[b] # {} /\ rds[b] # {}

(***************************************************************************)
(* C13.  Idempotent creation: assure_tenant_created calls create_folder    *)
(* on an appliance only when folder_exists returned false for it in that   *)
(* invocation, and at most once; where the partition exists no create      *)
(* call is made.  When it has returned without an error, the partition     *)
(* exists on every appliance of the service, one create call was made on   *)
(* each appliance where the partition was absent and none elsewhere, and   *)
(* service["traffic_group"] is set.                                        *)
(***************************************************************************)
IdempotentCreation ==
    /\ \A b \in Bigips :
          /\ created[b] <= 1
          /\ created[b] = 1 => found[b] = "absent"
          /\ found[b] = "exists" => created[b] = 0 /\ folder[b]
    /\ pc = "done" /\ result = Returned =>
          /\ traffic_group = TrafficGroup
          /\ \A i \in 1 .. Len(bigips) :
                /\ folder[bigips[i]]
                /\ found[bigips[i]] \in {"exists", "absent"}
                /\ created[bigips[i]] =
                      IF found[bigips[i]] = "absent" THEN 1 ELSE 0

IdempotentCreationWitness ==
    /\ pc = "done"
    /\ result = Returned
    /\ found[bigips[1]] = "exists"
    /\ created[bigips[1]] = 0
    /\ found[bigips[2]] = "absent"
    /\ created[bigips[2]] = 1
    /\ \A b \in Bigips : folder[b]

(***************************************************************************)
(* C14, as the claim states it.  Whatever the device client raises during  *)
(* assure_tenant_created, in folder_exists or in create_folder, the        *)
(* caller gets SystemCreationException and never the client's own error;   *)
(* and no call is made again after it raised.                              *)
(***************************************************************************)
CreationErrorClassified ==
    /\ result.status = "raised" => result.err = SystemCreationException
    /\ last.out # NoError =>
          /\ pc = "done"
          /\ result.status = "raised"
          /\ created[bigips[idx]] <= 1

\* the names delete_route_domain was called with in this teardown, in order
RouteDomainCalls ==
    LET c == SelectSeq(trace, LAMBDA e : e.call = "delete_route_domain")
    IN  [i \in 1 .. Len(c) |-> c[i].name]

(***************************************************************************)
(* C15.  Fail-fast route-domain query: the query of the route-domain       *)
(* names is the first call of every teardown, made before the emptiness    *)
(* check and before any callback or delete.  A query that raises ends the  *)
(* teardown with its error raised to the caller, the emptiness check not   *)
(* made, no callback or delete made and the partition as it was.  The      *)
(* names delete_route_domain is called with are the names that query       *)
(* returned, in its order: a prefix of them while the teardown runs or     *)
(* when it raised, all of them once the folder delete is reached.          *)
(***************************************************************************)
FailFastQuery ==
    InTeardown =>
       /\ pc = "query" =>
             /\ last = NoCall
             /\ gate = "none"
             /\ trace = << >>
       /\ last.call = "get_route_domain_names" /\ last.out # NoError =>
             /\ pc = "done"
             /\ result = RaisedTo(last.out)
             /\ outcome[bigips[idx]] = "raised"
             /\ gate = "none"
             /\ trace = << >>
             /\ Partition(bigips[idx]) = before
       /\ gate # "none" =>
             domain_names = SelectSeq(AllDomains, LAMBDA d : d \in before.rds)
       /\ Len(RouteDomainCalls) <= Len(domain_names)
       /\ \A i \in DOMAIN RouteDomainCalls :
             RouteDomainCalls[i] = domain_names[i]
       /\ pc = "folder" \/ Calls("delete_folder") # {} =>
             RouteDomainCalls = domain_names

FailFastQueryWitness ==
    /\ InTeardown
    /\ last.call = "get_route_domain_names"
    /\ last.out # NoError
    /\ result.status = "raised"
    /\ ~LoadBearing(bigips[idx])
    /\ before.folder
    /\ before.res # {}
    /\ before.rds # {}

(***************************************************************************)
(* C16.  Emptiness predicate: whenever _partition_empty has been called    *)
(* in a teardown, it returned true if and only if the partition has, on    *)
(* that appliance and at that time, no virtual address and no node; the    *)
(* call changed nothing on the appliance and made no callback or delete.   *)
(* The listings are read at every call: a teardown that was turned away    *)
(* passes the check in the next invocation once the last virtual address   *)
(* and node are gone.                                                      *)
(***************************************************************************)
EmptinessPredicate ==
    /\ InTeardown /\ last.call = "_partition_empty" /\ pc # "done" =>
          /\ gate \in {"true", "false"}
          /\ gate = "true" <=>
                vaddrs[bigips[idx]] = {} /\ nodes[bigips[idx]] = {}
          /\ Partition(bigips[idx]) = before
          /\ trace = << >>
    /\ InTeardown /\ pc \notin {"idle", "query", "gate", "done"} =>
          (gate = "true" <=> ~LoadBearing(bigips[idx]))

EmptinessPredicateWitness ==
    /\ InTeardown
    /\ invocations = 2
    /\ previous[bigips[idx]] = "not_empty"
    /\ last.call = "_partition_empty"
    /\ gate = "true"
    /\ ~LoadBearing(bigips[idx])
    /\ before.folder

(***************************************************************************)
(* C17, as the claim states it.  A delete that returned is the last        *)
(* delete attempt on its instance: in a teardown in which no call has      *)
(* raised, no instance has had more than one delete call and no VLAN more  *)
(* than one F5OS cleanup call; and when such a teardown has ended, every   *)
(* Snat, SnatPool, SnatTranslation, SelfIP and VLAN it found has had       *)
(* exactly one delete call and every VLAN with a tag exactly one F5OS      *)
(* cleanup call.                                                           *)
(***************************************************************************)
ExactlyOnceOnSuccess ==
    InTeardown /\ clean =>
       /\ \A r \in ResourceNames :
             /\ Count("delete", r) <= 1
             /\ Count("_delete_f5os_vlan_network", r) <= 1
       /\ Ended /\ gate = "true" =>
             \A r \in before.res :
                /\ Count("delete", r) = 1
                /\ Count("_delete_f5os_vlan_network", r) =
                      IF ResourceType(r) = "vlan" /\ tag(r) # 0 THEN 1 ELSE 0

(***************************************************************************)
(* C18.  Fabric-cleanup trigger condition: every step that calls           *)
(* _delete_f5os_vlan_network calls it for a VLAN whose tag is not 0, with  *)
(* the hostname of the appliance being torn down and the tag of that       *)
(* VLAN, and right after the delete call on that very VLAN returned        *)
(* without an error (the call before it, in the same attempt).  So the     *)
(* call is never made for a VLAN with tag 0, for an instance of another    *)
(* type, or after a delete attempt that raised.                            *)
(***************************************************************************)
FabricTrigger ==
    /\ [][Len(trace') = Len(trace) + 1
           /\ trace'[Len(trace')].call = "_delete_f5os_vlan_network" =>
              LET r == trace'[Len(trace')].name
              IN  /\ ResourceType(r) = "vlan"
                  /\ tag(r) # 0
                  /\ last = [call |-> "delete", name |-> r, out |-> NoError]
                  /\ r \notin res[bigips[idx]]
                  /\ attempt' \in {attempt, 0}
                  /\ fabricArgs' = [hostname |-> hostname(bigips[idx]),
                                    tag |-> tag(r)]]_vars
    /\ [](\A i \in Calls("_delete_f5os_vlan_network") :
             /\ ResourceType(trace[i].name) = "vlan"
             /\ tag(trace[i].name) # 0
             /\ i >= 2
             /\ trace[i - 1] = [call |-> "delete", name |-> trace[i].name])

FabricTriggerWitness ==
    /\ Ended
    /\ {"vlan_17", "vlan_0"} \subseteq before.res
    /\ Count("_delete_f5os_vlan_network", "vlan_17") >= 1
    /\ fabricArgs = [hostname |-> hostname(bigips[idx]), tag |-> 17]
    /\ Count("delete", "vlan_0") >= 1
    /\ Count("_delete_f5os_vlan_network", "vlan_0") = 0
    /\ Count("delete", "vlan_17") > Count("_delete_f5os_vlan_network", "vlan_17")

(***************************************************************************)
(* C19, as the claim states it.  Once a delete of an instance has          *)
(* returned after one or two attempts on it raised a 401, no error is      *)
(* raised to the caller for that instance: no delete call on it ends the   *)
(* teardown, which goes on with the next instance and the later phases.    *)
(***************************************************************************)
TransientRecovery ==
    InTeardown /\ last.call = "delete" /\ recovered =>
       /\ outcome[bigips[idx]] # "raised"
       /\ result.status # "raised"
       /\ pc # "done"

\* how a call of assure_tenant_cleanup can have ended: every teardown
\* returned, each as a no-op on a partition that is not empty or with the
\* folder deleted, or the teardown it was at raised
TerminalOutcome ==
    \/ /\ result = Returned
       /\ idx = Len(bigips)
       /\ \A i \in 1 .. Len(bigips) :
             \/ outcome[bigips[i]] = "not_empty"
             \/ outcome[bigips[i]] = "deleted" /\ ~folder[bigips[i]]
    \/ /\ result.status = "raised"
       /\ result.err \in Raised
       /\ outcome[bigips[idx]] = "raised"

(***************************************************************************)
(* C20.  Bounded termination: whatever the listings hold and whichever     *)
(* calls raise, a call of assure_tenant_cleanup that has started comes to  *)
(* its end, and it ends in one of the terminal outcomes (every teardown a  *)
(* no-op on a non-empty partition or a success with the folder deleted,    *)
(* or an error raised to the caller); in a teardown no instance gets more  *)
(* than 3 delete calls, and the retry loop of an instance sleeps at most   *)
(* 2 times.                                                                *)
(***************************************************************************)
BoundedTermination ==
    /\ [](InTeardown =>
            /\ \A r \in ResourceNames : Count("delete", r) <= 3
            /\ sleeps <= 2
            /\ attempt <= 3)
    /\ [](pc = "done" => TerminalOutcome)
    /\ (pc \notin {"idle", "done"}) ~> (pc = "done")

BoundedTerminationWitness ==
    /\ pc = "done"
    /\ result = Returned
    /\ outcome[bigips[idx]] = "deleted"
    /\ sleeps = 2
    /\ Cardinality(before.res) = 2
    /\ \A r \in before.res : Count("delete", r) = 3
====
